---- MODULE Spec2Model ----
(***************************************************************************)
(* PTSC certificate verification page (script.js).                         *)
(*                                                                         *)
(* Strings are sequences of characters, so that trimming, escaping and     *)
(* comparison are computed the way the script computes them.  The value    *)
(* `undefined` and the markup's placeholder text are one-element sequences *)
(* whose element is not a character, so they never equal a real string.    *)
(*                                                                         *)
(* Specifications, all over the same variables:                            *)
(*   SpecParse       parseURLParams on its own                             *)
(*   SpecValidate    validateCertificate on its own                        *)
(*   SpecForm        the landing page's form and handleFormSubmit          *)
(*   Spec            a page view: verifyCertificate, the window's error    *)
(*                   listeners and downloadCertificate, interleaved        *)
(*   SpecResize      the debounced resize listener, with time              *)
(*   SpecProtection  a verification run with enableClientProtection and    *)
(*                   disableClientProtection called from outside           *)
(*   SpecRuns        verifyCertificate called again on the same document,  *)
(*                   with weak fairness on the steps of a started run      *)
(***************************************************************************)
EXTENDS Integers, Sequences, FiniteSets, TLC

\* ------------------------------------------------------------------------
\* Bounds
\* ------------------------------------------------------------------------
\* longest query string (in name=value entries) given to parseURLParams
MaxEntries == 2
\* longest record collection served as certificates.json
MaxCerts == 2
\* calls of downloadCertificate in one page view
MaxExports == 2
\* rejected submissions of the landing page's form
MaxSubmits == 2
\* resize events of one page view
MaxResizes == 3
\* fetches issued by the verifyCertificate calls on one document
MaxRuns == 2

\* ------------------------------------------------------------------------
\* JavaScript values
\* ------------------------------------------------------------------------
Undefined == <<"undefined">>
Placeholder == <<"placeholder">>

\* a value is truthy unless it is undefined or the empty string
Truthy(v) == v # Undefined /\ v # <<>>

\* (v || '')
OrEmpty(v) == IF Truthy(v) THEN v ELSE <<>>

IsSpace(c) == c \in {" ", "\t", "\n"}

RECURSIVE TrimStart(_)
TrimStart(s) ==
    IF s = <<>> THEN s
    ELSE IF IsSpace(Head(s)) THEN TrimStart(Tail(s)) ELSE s

RECURSIVE TrimEnd(_)
TrimEnd(s) ==
    IF s = <<>> THEN s
    ELSE IF IsSpace(s[Len(s)]) THEN TrimEnd(SubSeq(s, 1, Len(s) - 1)) ELSE s

\* mutation of Trim: only leading whitespace is removed
TrimLeadingOnly(s) == TrimStart(s)

\* String.prototype.trim
Trim(s) == TrimEnd(TrimStart(s))

\* all sequences over S of length at most n
RECURSIVE SeqsUpTo(_, _)
SeqsUpTo(S, n) ==
    IF n = 0 THEN {<<>>}
    ELSE LET shorter == SeqsUpTo(S, n - 1)
         IN  shorter \cup {Append(q, x) : q \in shorter, x \in S}

\* ------------------------------------------------------------------------
\* Parameter Reader
\* ------------------------------------------------------------------------
ParamNames == {"id", "key", "ref"}

\* the empty result object: every property reads as undefined
EmptyParams == [n \in ParamNames |-> Undefined]

\* one iteration of the for..of loop: if (!result[key]) result[key] = value
ParseEntry(result, entry) ==
    IF ~Truthy(result[entry.name])
    THEN [result EXCEPT ![entry.name] = entry.value]
    ELSE result

RECURSIVE ParseEntries(_, _)
ParseEntries(entries, result) ==
    IF entries = <<>> THEN result
    ELSE ParseEntries(Tail(entries), ParseEntry(result, Head(entries)))

\* parseURLParams(), with window.location.search given as its entries
parseURLParams(entries) == ParseEntries(entries, EmptyParams)

\* value of the first occurrence of a name in the query (undefined if none)
RECURSIVE FirstOccurrence(_, _)
FirstOccurrence(entries, name) ==
    IF entries = <<>> THEN Undefined
    ELSE IF Head(entries).name = name THEN Head(entries).value
    ELSE FirstOccurrence(Tail(entries), name)

\* query strings given to the Parameter Reader on its own
ParseValues == {<<>>, <<"a">>, <<"b">>}
ParseEntryPool == [name : ParamNames, value : ParseValues]
ParseQueries == SeqsUpTo(ParseEntryPool, MaxEntries)

\* ------------------------------------------------------------------------
\* Certificate records
\* ------------------------------------------------------------------------
Record(id, key, name, type, event, date, issuer) ==
    [id |-> id, key |-> key, name |-> name, type |-> type,
     event |-> event, date |-> date, issuer |-> issuer]

\* records served to the Matcher when it is exercised on its own: every
\* combination of identifier and key, the other fields fixed
MatchRecordIds == {<<"a">>, <<"a", "b">>, <<"a", " ">>, Undefined}
MatchRecordKeys == {<<"k">>, <<"K">>, <<" ", "k">>}
MatchRecords ==
    {Record(i, k, <<"J">>, <<"T">>, <<"E">>, <<"2025-01-05">>, <<"I">>) :
        i \in MatchRecordIds, k \in MatchRecordKeys}
MatchInputIds ==
    {<<"a">>, <<"A">>, <<"a", "b">>, <<" ", "a">>, <<"a", " ">>, <<>>, Undefined}
MatchInputKeys == {<<"k">>, <<"K">>, <<"k", " ">>, Undefined}

\* records of the verification page's certificates.json
RecJane ==
    Record(<<"a">>, <<"k">>, <<"J">>, <<"T">>, <<"E">>, <<"2025-01-05">>, <<"I">>)
RecAmp ==
    Record(<<"a">>, <<"k">>, <<"R", "&", "D">>, <<"T">>, <<"E">>, <<"2025-01-05">>, <<"I">>)
RecSpaced ==
    Record(<<" ", "a">>, <<"k", " ">>, <<"S", " ", "\t", "D">>, <<"T">>, <<"E">>,
           <<"bad">>, <<"I">>)
RecBare ==
    Record(<<"b">>, <<"k">>, <<>>, Undefined, Undefined, Undefined, Undefined)

\* a parsed response body: an object that has a `certificates` array or not
Body(certs) == [hasCertificates |-> TRUE, certificates |-> certs]
BodyWithoutCertificates == [hasCertificates |-> FALSE, certificates |-> <<>>]

MatchBodies ==
    {Body(c) : c \in SeqsUpTo(MatchRecords, MaxCerts)} \cup {BodyWithoutCertificates}
PageBodies ==
    {Body(<<>>), Body(<<RecJane>>), Body(<<RecAmp, RecJane>>),
     Body(<<RecBare, RecSpaced>>), BodyWithoutCertificates}

\* a record with RecJane's identifier and key whose name is the empty string
RecNameless ==
    Record(<<"a">>, <<"k">>, <<>>, <<"W">>, <<"F">>, <<"2025-01-05">>, <<"I">>)

\* the bodies served when the page is verified more than once
RunBodies == PageBodies \cup {Body(<<RecNameless>>)}

\* ------------------------------------------------------------------------
\* Record Source
\* ------------------------------------------------------------------------
GenericLoadError == "Failed to load certificate database"
NoError == ""

\* the error raised inside fetchCertificates' try block
InnerError(cause) ==
    CASE cause = "transport" -> "TypeError: Failed to fetch"
      [] cause = "status" -> "HTTP error! status"
      [] cause = "syntax" -> "SyntaxError: Unexpected token"

\* mutation of fetchCertificatesCatch: the inner error is rethrown as it is
fetchCertificatesRethrow(error) == error

\* the catch block of fetchCertificates: whatever was caught, throw the
\* one generic error
fetchCertificatesCatch(error) == GenericLoadError

\* ------------------------------------------------------------------------
\* Matcher
\* ------------------------------------------------------------------------
Null == 0

\* mutation of CertMatches: the comparison ignores the key
CertMatchesIdOnly(cert, normalizedId, normalizedKey) ==
    Trim(OrEmpty(cert.id)) = normalizedId

\* the predicate given to Array.prototype.find
CertMatches(cert, normalizedId, normalizedKey) ==
    LET certId == Trim(OrEmpty(cert.id))
        certKey == Trim(OrEmpty(cert.key))
    IN  certId = normalizedId /\ certKey = normalizedKey

RECURSIVE FindFrom(_, _, _, _)
FindFrom(certs, i, normalizedId, normalizedKey) ==
    IF i > Len(certs) THEN Null
    ELSE IF CertMatches(certs[i], normalizedId, normalizedKey) THEN i
    ELSE FindFrom(certs, i + 1, normalizedId, normalizedKey)

RECURSIVE FindBackFrom(_, _, _, _)
FindBackFrom(certs, i, normalizedId, normalizedKey) ==
    IF i < 1 THEN Null
    ELSE IF CertMatches(certs[i], normalizedId, normalizedKey) THEN i
    ELSE FindBackFrom(certs, i - 1, normalizedId, normalizedKey)

\* mutation of Find: the scan runs from the end of the array
FindLast(certs, normalizedId, normalizedKey) ==
    FindBackFrom(certs, Len(certs), normalizedId, normalizedKey)

\* data.certificates.find(...): the index of the element returned, Null for
\* undefined
Find(certs, normalizedId, normalizedKey) ==
    FindFrom(certs, 1, normalizedId, normalizedKey)

\* validateCertificate once the body is there: normalise the inputs, scan;
\* a body without a certificates array raises a TypeError, which the catch
\* block turns into null
validateBody(data, id, key) ==
    LET normalizedId == Trim(OrEmpty(id))
        normalizedKey == Trim(OrEmpty(key))
    IN  IF ~data.hasCertificates THEN Null
        ELSE Find(data.certificates, normalizedId, normalizedKey)

\* ------------------------------------------------------------------------
\* Text conversions
\* ------------------------------------------------------------------------
\* what innerHTML gives for one character of text content
EscapeChar(c) ==
    CASE c = "&" -> <<"&", "a", "m", "p", ";">>
      [] c = "<" -> <<"&", "l", "t", ";">>
      [] c = ">" -> <<"&", "g", "t", ";">>
      [] OTHER -> <<c>>

\* sanitizeText: div.textContent = text; return div.innerHTML
RECURSIVE sanitizeText(_)
sanitizeText(text) ==
    IF text = <<>> THEN <<>>
    ELSE EscapeChar(Head(text)) \o sanitizeText(Tail(text))

\* formatDate: a date the Date constructor understands is written out in
\* the en-US long form, anything else gives the text "Invalid Date"
formatDate(dateString) ==
    IF dateString = <<"2025-01-05">> THEN <<"January 5, 2025">>
    ELSE <<"Invalid Date">>

\* ------------------------------------------------------------------------
\* Responsive scale (rationals as reduced fractions <<numerator, denominator>>)
\* ------------------------------------------------------------------------
baseWidth == 1123
baseHeight == 794

Abs(x) == IF x < 0 THEN -x ELSE x

\* greatest common divisor, as a function so that its arguments are values
GcdOf[a \in Nat, b \in Nat] == IF b = 0 THEN a ELSE GcdOf[b, a % b]
Gcd(a, b) == GcdOf[a, b]

Frac(n, d) ==
    LET g == Gcd(Abs(n), d) IN <<n \div g, d \div g>>

FracLeq(x, y) == x[1] * y[2] <= y[1] * x[2]
FracMin(x, y) == IF FracLeq(x, y) THEN x ELSE y
FracMax(x, y) == IF FracLeq(x, y) THEN y ELSE x

One == Frac(1, 1)
MinScale == Frac(1, 4)

\* mutation of ScaleFor: the scale has no lower limit
ScaleForUnfloored(viewportSize) ==
    LET viewportWidth == viewportSize[1]
        viewportHeight == viewportSize[2]
        horizontalPadding == IF viewportWidth < 768 THEN 20 ELSE 40
        verticalPadding == IF viewportWidth < 768 THEN 100 ELSE 200
        scaleX == Frac(viewportWidth - horizontalPadding, baseWidth)
        scaleY == Frac(viewportHeight - verticalPadding, baseHeight)
    IN  FracMin(FracMin(scaleX, scaleY), One)

\* the scale applyResponsiveScale computes for a viewport <<width, height>>
ScaleFor(viewportSize) ==
    LET viewportWidth == viewportSize[1]
        viewportHeight == viewportSize[2]
        horizontalPadding == IF viewportWidth < 768 THEN 20 ELSE 40
        verticalPadding == IF viewportWidth < 768 THEN 100 ELSE 200
        availableWidth == viewportWidth - horizontalPadding
        availableHeight == viewportHeight - verticalPadding
        scaleX == Frac(availableWidth, baseWidth)
        scaleY == Frac(availableHeight, baseHeight)
    IN  FracMax(FracMin(FracMin(scaleX, scaleY), One), MinScale)

\* the styles applyResponsiveScale writes: the container's transform and
\* the wrapper's min-height (scaledHeight + 40)
applyResponsiveScale(viewportSize) ==
    LET scale == ScaleFor(viewportSize)
    IN  [transform |-> scale,
         minHeight |-> Frac(baseHeight * scale[1] + 40 * scale[2], scale[2])]

Unstyled == [transform |-> <<0, 1>>, minHeight |-> <<0, 1>>]

\* the window sizes resize events report: narrower and lower than the
\* padding, either side of the 768 breakpoint, exactly fitting, larger
ResizeWidths == {10, 767, 768, 1163, 1920}
ResizeHeights == {50, 640, 994, 1080}
ResizeViewports == ResizeWidths \X ResizeHeights

\* debounce(applyResponsiveScale, 250)
wait == 250

\* the time that passes between two steps of the event loop, in ms
Elapses == {100, 150}

\* ------------------------------------------------------------------------
\* Display Controller: the three view regions
\* ------------------------------------------------------------------------
Regions == {"loadingState", "errorState", "certificateState"}

\* mutation of showError: the loading region is left as it was
showErrorKeepLoading(d) ==
    [d EXCEPT !.errorState = "block", !.certificateState = "none"]

showLoading(d) ==
    [d EXCEPT !.loadingState = "block", !.errorState = "none",
              !.certificateState = "none"]

showError(d) ==
    [d EXCEPT !.loadingState = "none", !.errorState = "block",
              !.certificateState = "none"]

\* the style changes of showCertificate (its two calls are in the action)
showCertificateStyles(d) ==
    [d EXCEPT !.loadingState = "none", !.errorState = "none",
              !.certificateState = "block"]

\* ------------------------------------------------------------------------
\* Display Controller: field population
\* ------------------------------------------------------------------------
FieldIds == {"certificateType", "recipientName", "eventName", "completionDate",
             "issueDate", "issuerName", "certificateId"}

\* position of each element's update in updateCertificateDisplay
StepOf == [certificateType |-> 1, recipientName |-> 2, eventName |-> 3,
           completionDate |-> 4, issueDate |-> 5, issuerName |-> 6,
           certificateId |-> 7]
TitleStep == 8
LastStep == 9

\* where an exception is raised in updateCertificateDisplay: nowhere, at the
\* first update, after the recipient's name was written, at the title
FailPoints == {0, 1, 3, 8}

\* the record property an element is filled from
SourceOf(el, cert) ==
    CASE el = "certificateType" -> cert.type
      [] el = "recipientName" -> cert.name
      [] el = "eventName" -> cert.event
      [] el = "completionDate" -> cert.date
      [] el = "issueDate" -> cert.date
      [] el = "issuerName" -> cert.issuer
      [] el = "certificateId" -> cert.id

\* the text an element's update writes
Rendered(el, cert) ==
    IF el \in {"completionDate", "issueDate"}
    THEN formatDate(SourceOf(el, cert))
    ELSE sanitizeText(SourceOf(el, cert))

\* the elements' text after the first `completed` updates of
\* updateCertificateDisplay ran: an update writes only if the property is
\* truthy
fieldsAfter(f, cert, completed) ==
    [el \in FieldIds |->
        IF StepOf[el] <= completed /\ Truthy(SourceOf(el, cert))
        THEN Rendered(el, cert)
        ELSE f[el]]

titleAfter(t, cert, completed) ==
    IF TitleStep <= completed /\ Truthy(cert.name)
    THEN <<"Certificate - ">> \o cert.name \o <<" - PTSC KNIT">>
    ELSE t

\* mutation of SetMeta: an entry is created whether there is one or not
SetMetaAlwaysCreates(entries, content) == <<content>> \o entries

\* one metadata entry of updateOpenGraphMeta: create it if there is none,
\* then set the content of the first one
SetMeta(entries, content) ==
    IF entries = <<>> THEN <<content>>
    ELSE [entries EXCEPT ![1] = content]

updateOpenGraphMeta(m, cert) ==
    [title |-> SetMeta(m.title, cert.name \o <<" - ">> \o cert.type \o <<" - PTSC KNIT">>),
     description |-> SetMeta(m.description,
        cert.name \o <<" has successfully completed ">> \o cert.event
                  \o <<" at Programming and Tech Skill Club, KNIT Sultanpur.">>)]

\* ------------------------------------------------------------------------
\* Form Gate: the patterns and the target address
\* ------------------------------------------------------------------------
Digits == {"0", "1", "2", "3", "4", "5", "6", "7", "8", "9"}
Letters ==
    {"a", "b", "c", "d", "e", "f", "g", "h", "i", "j", "k", "l", "m", "n", "o",
     "p", "q", "r", "s", "t", "u", "v", "w", "x", "y", "z",
     "A", "B", "C", "D", "E", "F", "G", "H", "I", "J", "K", "L", "M", "N", "O",
     "P", "Q", "R", "S", "T", "U", "V", "W", "X", "Y", "Z"}
Alphanumerics == Letters \cup Digits

\* an anchored pattern without repetition operators is a sequence of
\* character classes: /^PTSC\d{4}-\d{4}$/ and /^[a-zA-Z0-9]{10}$/
IdPattern ==
    <<{"P"}, {"T"}, {"S"}, {"C"}, Digits, Digits, Digits, Digits, {"-"},
      Digits, Digits, Digits, Digits>>
KeyPattern == [i \in 1..10 |-> Alphanumerics]

\* mutation of Test: the pattern is not anchored at the end
TestPrefix(pattern, s) ==
    /\ Len(s) >= Len(pattern)
    /\ \A i \in 1..Len(pattern) : s[i] \in pattern[i]

\* pattern.test(s)
Test(pattern, s) ==
    /\ Len(s) = Len(pattern)
    /\ \A i \in 1..Len(pattern) : s[i] \in pattern[i]

\* the characters encodeURIComponent leaves as they are
Unreserved == Alphanumerics \cup {"-", "_", ".", "!", "~", "*", "'", "(", ")"}

EncodeChar(c) ==
    IF c \in Unreserved THEN <<c>>
    ELSE CASE c = " " -> <<"%", "2", "0">>
           [] c = "\t" -> <<"%", "0", "9">>
           [] c = "\n" -> <<"%", "0", "A">>
           [] c = "&" -> <<"%", "2", "6">>
           [] c = "=" -> <<"%", "3", "D">>
           [] c = "#" -> <<"%", "2", "3">>
           [] c = "+" -> <<"%", "2", "B">>
           [] c = "?" -> <<"%", "3", "F">>
           [] c = "/" -> <<"%", "2", "F">>
           [] c = "%" -> <<"%", "2", "5">>
           [] OTHER -> <<"%", c>>

RECURSIVE encodeURIComponent(_)
encodeURIComponent(s) ==
    IF s = <<>> THEN <<>>
    ELSE EncodeChar(Head(s)) \o encodeURIComponent(Tail(s))

\* formData.get(name)?.trim(): a field the form does not have gives undefined
OptionalTrim(v) == IF v = Undefined THEN Undefined ELSE Trim(v)

FormPage == <<"index.html">>
CertificatePage == <<"certificate.html">>

NoMessage == ""
MessageBoth == "Please enter both Certificate ID and Verification Key"
MessageId == "Certificate ID should be in format: PTSC2025-0123"
MessageKey == "Verification key should be 10 alphanumeric characters"

\* what handleFormSubmit does with the form's values: the alert it shows,
\* or the address it assigns to window.location.href
handleFormSubmit(f) ==
    LET certificateId == OptionalTrim(f.certificateId)
        certificateKey == OptionalTrim(f.certificateKey)
    IN  IF ~Truthy(certificateId) \/ ~Truthy(certificateKey)
        THEN [alert |-> MessageBoth, url |-> Undefined]
        ELSE IF ~Test(IdPattern, certificateId)
        THEN [alert |-> MessageId, url |-> Undefined]
        ELSE IF ~Test(KeyPattern, certificateKey)
        THEN [alert |-> MessageKey, url |-> Undefined]
        ELSE [alert |-> NoMessage,
              url |-> <<"certificate.html?id=">>
                        \o encodeURIComponent(certificateId)
                        \o <<"&key=">> \o encodeURIComponent(certificateKey)]

\* values typed into the two fields (Undefined: the form has no such field)
IdGood == <<"P", "T", "S", "C", "2", "0", "2", "5", "-", "0", "1", "2", "3">>
IdShortYear == <<"P", "T", "S", "C", "2", "5", "-", "1", "2", "3">>
KeyGood == <<"A", "B", "C", "D", "E", "F", "G", "H", "I", "J">>
KeyShort == <<"A", "B", "C", "D", "E", "F", "G", "H", "I">>
FormIds ==
    {IdGood, IdShortYear, <<" ">> \o IdGood \o <<" ", "\n">>,
     <<"p", "t", "s", "c">> \o SubSeq(IdGood, 5, 13),
     IdGood \o <<"4">>, <<"X">> \o IdGood,
     SubSeq(IdGood, 1, 8) \o <<"_">> \o SubSeq(IdGood, 10, 13),
     SubSeq(IdGood, 1, 7) \o <<"a">> \o SubSeq(IdGood, 9, 13),
     SubSeq(IdGood, 1, 8) \o <<" ">> \o SubSeq(IdGood, 9, 13),
     <<>>, <<" ">>, Undefined}
FormKeys ==
    {KeyGood, KeyShort, <<"a", "B", "3", "d", "E", "6", "g", "H", "9", "j">>,
     <<"\t">> \o KeyGood \o <<" ">>, KeyGood \o <<"K">>,
     SubSeq(KeyGood, 1, 5) \o <<"-">> \o SubSeq(KeyGood, 7, 10),
     SubSeq(KeyGood, 1, 5) \o <<" ">> \o SubSeq(KeyGood, 6, 9),
     SubSeq(KeyGood, 1, 9) \o <<"&">>,
     <<>>, Undefined}
BlankForm == [certificateId |-> <<>>, certificateKey |-> <<>>]

\* ------------------------------------------------------------------------
\* State
\* ------------------------------------------------------------------------
VARIABLES
    search,             \* window.location.search, as its entries
    pc,                 \* where the verification run stands
    params,             \* verifyCertificate: result of parseURLParams
    argId, argKey,      \* validateCertificate: its arguments
    fetchCount,         \* fetches of certificates.json issued so far
    outcome,            \* how the fetch settled
    thrown,             \* message of the error fetchCertificates threw
    data,               \* validateCertificate: the parsed body
    certificate,        \* index in data.certificates of the record found
    renderFailed,       \* updateCertificateDisplay caught an exception
    caught,             \* showCertificate: the calls whose exception it caught
    display,            \* style.display of the three regions
    fields,             \* textContent of the certificate's elements
    title,              \* document.title
    meta,               \* og:title / og:description entries of the head
    protection,         \* _protectionHandlers is non-null
    listeners,          \* deterrent listeners registered on the document
    viewport,           \* window.innerWidth, window.innerHeight
    layout,             \* styles written by applyResponsiveScale
    timeout,            \* debounce: id of the timer set last (0: undefined)
    timers,             \* pending timers of the window: id, ms until due
    rescaled,           \* calls of applyResponsiveScale made by later()
    exports,            \* downloadCertificate runs, in the order of their calls
    clones,             \* runs whose off-screen clone is attached to the body
    navigation,         \* style.visibility of the navigation region
    cursor,             \* document.body.style.cursor
    alerts,             \* alert dialogs shown
    saved,              \* names of the files handed to the browser
    form,               \* landing page: value of the form's two fields
    href,               \* landing page: window.location.href
    message             \* landing page: text of the last alert

runVars == <<pc, params, argId, argKey, fetchCount, outcome, thrown, data,
             certificate, renderFailed, caught>>
domVars == <<display, fields, title, meta>>
protectionVars == <<protection, listeners>>
scaleVars == <<viewport, layout, timeout, timers, rescaled>>
exportVars == <<exports, clones, navigation, cursor, alerts, saved>>
formVars == <<form, href, message>>
vars == <<search, formVars, runVars, domVars, protectionVars, scaleVars,
          exportVars>>

\* the social-preview entries of the markup: none, or both
NoMeta == [title |-> <<>>, description |-> <<>>]
MarkupMeta == [title |-> <<Placeholder>>, description |-> <<Placeholder>>]

\* the page as loaded: nothing called yet
InitWith(queries, viewports, metas, location) ==
    /\ search \in queries
    /\ pc = "idle"
    /\ params = EmptyParams
    /\ argId = Undefined
    /\ argKey = Undefined
    /\ fetchCount = 0
    /\ outcome = "pending"
    /\ thrown = NoError
    /\ data = BodyWithoutCertificates
    /\ certificate = Null
    /\ renderFailed = FALSE
    /\ caught = {}
    /\ display = [r \in Regions |-> ""]
    /\ fields = [el \in FieldIds |-> Placeholder]
    /\ title = Placeholder
    /\ meta \in metas
    /\ protection = FALSE
    /\ listeners = [contextmenu |-> 0, keydown |-> 0]
    /\ viewport \in viewports
    /\ layout = Unstyled
    /\ timeout = 0
    /\ timers = {}
    /\ rescaled = 0
    /\ exports = <<>>
    /\ clones = {}
    /\ navigation = ""
    /\ cursor = ""
    /\ alerts = 0
    /\ saved = <<>>
    /\ form = BlankForm
    /\ href = location
    /\ message = NoMessage

\* no function of the script is on the call stack: the event loop may run
\* another handler
Quiescent == pc \in {"idle", "parsed", "delay", "fetch", "json", "done"}

\* ------------------------------------------------------------------------
\* Parameter Reader on its own
\* ------------------------------------------------------------------------
ParseOnly ==
    /\ pc = "idle"
    /\ params' = parseURLParams(search)
    /\ pc' = "parsed"
    /\ UNCHANGED <<search, formVars, argId, argKey, fetchCount, outcome,
                   thrown, data, certificate, renderFailed, caught, domVars,
                   protectionVars, scaleVars, exportVars>>

InitParse == InitWith(ParseQueries, {<<1024, 768>>}, {NoMeta}, CertificatePage)
NextParse == ParseOnly
SpecParse == InitParse /\ [][NextParse]_vars

\* ------------------------------------------------------------------------
\* Record Source and Matcher: validateCertificate
\* ------------------------------------------------------------------------
\* mutation of CallValidate: the fetch is issued on the first call only
CallValidateCached(id, key) ==
    /\ argId' = id
    /\ argKey' = key
    /\ fetchCount' = IF fetchCount = 0 THEN 1 ELSE fetchCount
    /\ pc' = "fetch"

\* validateCertificate(id, key) is called: fetchCertificates issues the fetch
CallValidate(id, key) ==
    /\ argId' = id
    /\ argKey' = key
    /\ fetchCount' = fetchCount + 1
    /\ pc' = "fetch"

\* fetchCertificates' try block failed with `cause`: its catch block logs and
\* throws, validateCertificate's catch block logs and returns null
FetchFailed(cause) ==
    /\ outcome' = cause
    /\ thrown' = fetchCertificatesCatch(InnerError(cause))
    /\ certificate' = Null
    /\ pc' = "validated"
    /\ UNCHANGED data

\* the fetch settles: it rejects, or answers with a status outside 200-299,
\* or answers with a success status and response.json() is awaited
FetchSettles(cause) ==
    /\ pc = "fetch"
    /\ IF cause = "ok"
       THEN /\ pc' = "json"
            /\ UNCHANGED <<outcome, thrown, data, certificate>>
       ELSE FetchFailed(cause)
    /\ UNCHANGED <<search, formVars, params, argId, argKey, fetchCount,
                   renderFailed, caught, domVars, protectionVars, scaleVars,
                   exportVars>>

\* response.json() rejects: the body is not JSON
BodyUnparseable ==
    /\ pc = "json"
    /\ FetchFailed("syntax")
    /\ UNCHANGED <<search, formVars, params, argId, argKey, fetchCount,
                   renderFailed, caught, domVars, protectionVars, scaleVars,
                   exportVars>>

\* response.json() resolves with the body d: the rest of validateCertificate
BodyParsed(d) ==
    /\ pc = "json"
    /\ outcome' = "body"
    /\ data' = d
    /\ certificate' = validateBody(d, argId, argKey)
    /\ pc' = "validated"
    /\ UNCHANGED <<search, formVars, params, argId, argKey, fetchCount, thrown,
                   renderFailed, caught, domVars, protectionVars, scaleVars,
                   exportVars>>

\* validateCertificate called directly (it is exported)
ValidateOnly(id, key) ==
    /\ pc = "idle"
    /\ CallValidate(id, key)
    /\ UNCHANGED <<search, formVars, params, outcome, thrown, data,
                   certificate, renderFailed, caught, domVars, protectionVars,
                   scaleVars, exportVars>>

InitValidate == InitWith({<<>>}, {<<1024, 768>>}, {NoMeta}, CertificatePage)
NextValidate ==
    \/ \E id \in MatchInputIds, key \in MatchInputKeys : ValidateOnly(id, key)
    \/ \E cause \in {"transport", "status", "ok"} : FetchSettles(cause)
    \/ BodyUnparseable
    \/ \E d \in MatchBodies : BodyParsed(d)
SpecValidate == InitValidate /\ [][NextValidate]_vars

\* ------------------------------------------------------------------------
\* Form Gate: the landing page
\* ------------------------------------------------------------------------
\* the visitor fills in the two fields
FormInput(id, key) ==
    /\ href = FormPage
    /\ form' = [certificateId |-> id, certificateKey |-> key]
    /\ UNCHANGED <<search, href, message, runVars, domVars, protectionVars,
                   scaleVars, exportVars>>

\* the form's submit event: handleFormSubmit(event).  A navigation unloads
\* the page; a rejected submission leaves it as it was, but for the alert
HandleFormSubmit ==
    /\ href = FormPage
    /\ alerts < MaxSubmits
    /\ LET result == handleFormSubmit(form)
       IN  IF result.url = Undefined
           THEN /\ alerts' = alerts + 1
                /\ message' = result.alert
                /\ UNCHANGED href
           ELSE /\ href' = result.url
                /\ UNCHANGED <<alerts, message>>
    /\ UNCHANGED <<search, form, runVars, domVars, protectionVars, scaleVars,
                   exports, clones, navigation, cursor, saved>>

InitForm == InitWith({<<>>}, {<<1024, 768>>}, {NoMeta}, FormPage)
NextForm ==
    \/ \E id \in FormIds, key \in FormKeys : FormInput(id, key)
    \/ HandleFormSubmit
SpecForm == InitForm /\ [][NextForm]_vars

\* ------------------------------------------------------------------------
\* The verification page: verifyCertificate and the page's event handlers
\* ------------------------------------------------------------------------
Entry(name, value) == [name |-> name, value |-> value]

\* addresses the verification page is visited with
PageQueries ==
    {<<>>,
     <<Entry("id", <<"a">>)>>,
     <<Entry("key", <<"k">>)>>,
     <<Entry("id", <<"a">>), Entry("key", <<>>)>>,
     <<Entry("id", <<"a">>), Entry("key", <<"k">>)>>,
     <<Entry("id", <<"a">>), Entry("key", <<"K">>)>>,
     <<Entry("id", <<"a", " ">>), Entry("key", <<" ", "k">>)>>,
     <<Entry("id", <<"b">>), Entry("key", <<"k">>)>>,
     <<Entry("id", <<>>), Entry("id", <<"a">>), Entry("key", <<"k">>)>>}

\* mutation of MissingParams: only the identifier is looked at
MissingId(p) == ~Truthy(p.id)

\* !certificateId || !certificateKey
MissingParams(p) == ~Truthy(p.id) \/ ~Truthy(p.key)

\* the deterrent handlers: the flag and the listeners registered
Handlers(flag, registered) == [flag |-> flag, listeners |-> registered]

\* mutation of enableClientProtection: the flag is not looked at
enableClientProtectionUnguarded(h) ==
    Handlers(TRUE, [contextmenu |-> h.listeners.contextmenu + 1,
                    keydown |-> h.listeners.keydown + 1])

\* enableClientProtection: register the two listeners unless the flag is set
enableClientProtection(h) ==
    IF h.flag THEN h
    ELSE Handlers(TRUE, [contextmenu |-> h.listeners.contextmenu + 1,
                         keydown |-> h.listeners.keydown + 1])

\* removeEventListener: one registration less, if there is one
Removed(n) == IF n > 0 THEN n - 1 ELSE 0

\* disableClientProtection: remove the two listeners if the flag is set
disableClientProtection(h) ==
    IF ~h.flag THEN h
    ELSE Handlers(FALSE, [contextmenu |-> Removed(h.listeners.contextmenu),
                          keydown |-> Removed(h.listeners.keydown)])

\* mutation of EnableClientProtection: the function is not called
SkipClientProtection == UNCHANGED protectionVars

EnableClientProtection ==
    LET h == enableClientProtection(Handlers(protection, listeners))
    IN  protection' = h.flag /\ listeners' = h.listeners

DisableClientProtection ==
    LET h == disableClientProtection(Handlers(protection, listeners))
    IN  protection' = h.flag /\ listeners' = h.listeners

\* the calls showCertificate wraps in try/catch
ShowFailures == {"enableClientProtection", "applyResponsiveScale"}

\* verifyCertificate is called: showLoading()
VerifyCertificate ==
    /\ pc = "idle"
    /\ display' = showLoading(display)
    /\ pc' = "loading"
    /\ UNCHANGED <<search, formVars, params, argId, argKey, fetchCount,
                   outcome, thrown, data, certificate, renderFailed, caught,
                   fields, title, meta, protectionVars, scaleVars,
                   exportVars>>

\* mutation of CheckParams: a missing parameter ends the run without
\* showError()
CheckParamsSilent ==
    /\ pc = "loading"
    /\ params' = parseURLParams(search)
    /\ pc' = IF MissingParams(params') THEN "done" ELSE "delay"
    /\ UNCHANGED <<search, formVars, argId, argKey, fetchCount, outcome,
                   thrown, data, certificate, renderFailed, caught, domVars,
                   protectionVars, scaleVars, exportVars>>

\* parse the parameters and check them: showError() and return, or start
\* the loading delay
CheckParams ==
    /\ pc = "loading"
    /\ params' = parseURLParams(search)
    /\ IF MissingParams(params')
       THEN /\ display' = showError(display)
            /\ pc' = "done"
       ELSE /\ pc' = "delay"
            /\ UNCHANGED display
    /\ UNCHANGED <<search, formVars, argId, argKey, fetchCount, outcome,
                   thrown, data, certificate, renderFailed, caught, fields,
                   title, meta, protectionVars, scaleVars, exportVars>>

\* the loading delay is over: validateCertificate(certificateId, certificateKey)
DelayElapsed ==
    /\ pc = "delay"
    /\ CallValidate(params.id, params.key)
    /\ UNCHANGED <<search, formVars, params, outcome, thrown, data,
                   certificate, renderFailed, caught, domVars, protectionVars,
                   scaleVars, exportVars>>

\* a record was found: updateCertificateDisplay(certificate).  failAt = 0:
\* every update runs; failAt = k: the k-th update raises an exception, the
\* catch block logs it and calls showError()
UpdateCertificateDisplay(failAt) ==
    /\ pc = "validated"
    /\ certificate # Null
    /\ LET cert == data.certificates[certificate]
           completed == IF failAt = 0 THEN LastStep ELSE failAt - 1
       IN  /\ fields' = fieldsAfter(fields, cert, completed)
           /\ title' = titleAfter(title, cert, completed)
           /\ meta' = IF completed = LastStep
                      THEN updateOpenGraphMeta(meta, cert) ELSE meta
    /\ renderFailed' = (failAt # 0)
    /\ display' = IF failAt # 0 THEN showError(display) ELSE display
    /\ pc' = "updated"
    /\ UNCHANGED <<search, formVars, params, argId, argKey, fetchCount,
                   outcome, thrown, data, certificate, caught, protectionVars,
                   scaleVars, exportVars>>

\* showCertificate(), the statement after updateCertificateDisplay.  The
\* calls in `failing` raise an exception on entry (the document or the
\* window is not there for them) and change nothing; the catch blocks
\* swallow it
ShowCertificate(failing) ==
    /\ pc = "updated"
    /\ display' = showCertificateStyles(display)
    /\ IF "enableClientProtection" \in failing
       THEN UNCHANGED protectionVars
       ELSE EnableClientProtection
    /\ layout' = IF "applyResponsiveScale" \in failing THEN layout
                 ELSE applyResponsiveScale(viewport)
    /\ caught' = failing
    /\ pc' = "done"
    /\ UNCHANGED <<search, formVars, params, argId, argKey, fetchCount,
                   outcome, thrown, data, certificate, renderFailed, fields,
                   title, meta, viewport, timeout, timers, rescaled,
                   exportVars>>

\* no record was found: showError()
ShowNoMatch ==
    /\ pc = "validated"
    /\ certificate = Null
    /\ display' = showError(display)
    /\ pc' = "done"
    /\ UNCHANGED <<search, formVars, params, argId, argKey, fetchCount,
                   outcome, thrown, data, certificate, renderFailed, caught,
                   fields, title, meta, protectionVars, scaleVars,
                   exportVars>>

\* the window's 'error' listener: log, then showError() if the certificate
\* region and the loading region are both hidden
windowErrorListener(d) ==
    IF d.certificateState = "none" /\ d.loadingState = "none"
    THEN showError(d) ELSE d

\* the window's 'unhandledrejection' listener: log and preventDefault()
unhandledRejectionListener(d) == d

\* an error event reaches the window
WindowError ==
    /\ Quiescent
    /\ display' = windowErrorListener(display)
    /\ UNCHANGED <<search, formVars, runVars, fields, title, meta,
                   protectionVars, scaleVars, exportVars>>

\* a promise is rejected and nothing handles the rejection
UnhandledRejection ==
    /\ Quiescent
    /\ display' = unhandledRejectionListener(display)
    /\ UNCHANGED <<fields, title, meta, exportVars>>
    /\ UNCHANGED <<search, formVars, runVars, protectionVars, scaleVars>>

\* ------------------------------------------------------------------------
\* Responsive scale: the debounced resize listener
\* ------------------------------------------------------------------------
\* clearTimeout(id): the timer with this id, if it is pending, is dropped
clearTimeout(pending, id) == {t \in pending : t.id # id}

\* setTimeout(later, wait), the new timer getting the next id
setTimeout(pending, id) == pending \cup {[id |-> id, due |-> wait]}

\* mutation of Resize: the pending timer is not cleared
ResizeKeepsTimer(size) ==
    /\ Quiescent
    /\ timeout < MaxResizes
    /\ viewport' = size
    /\ timeout' = timeout + 1
    /\ timers' = setTimeout(timers, timeout + 1)
    /\ UNCHANGED <<search, formVars, runVars, domVars, protectionVars, layout,
                   rescaled, exportVars>>

\* a resize event: executedFunction clears the timer it set last and sets
\* a new one
Resize(size) ==
    /\ Quiescent
    /\ timeout < MaxResizes
    /\ viewport' = size
    /\ timeout' = timeout + 1
    /\ timers' = setTimeout(clearTimeout(timers, timeout), timeout + 1)
    /\ UNCHANGED <<search, formVars, runVars, domVars, protectionVars, layout,
                   rescaled, exportVars>>

\* time passes while a timer is waiting
Tick(ms) ==
    /\ Quiescent
    /\ \E t \in timers : t.due > 0
    /\ timers' = {[t EXCEPT !.due = IF t.due > ms THEN t.due - ms ELSE 0] :
                    t \in timers}
    /\ UNCHANGED <<search, formVars, runVars, domVars, protectionVars,
                   viewport, layout, timeout, rescaled, exportVars>>

\* a timer that is due fires: later() clears the timer set last and calls
\* applyResponsiveScale
ResizeSettled ==
    /\ Quiescent
    /\ \E t \in timers :
        /\ t.due = 0
        /\ timers' = clearTimeout(timers \ {t}, timeout)
    /\ layout' = applyResponsiveScale(viewport)
    /\ rescaled' = rescaled + 1
    /\ UNCHANGED <<search, formVars, runVars, domVars, protectionVars,
                   viewport, timeout, exportVars>>

InitResize == InitWith({<<>>}, ResizeViewports, {NoMeta}, CertificatePage)
NextResize ==
    \/ \E size \in ResizeViewports : Resize(size)
    \/ \E ms \in Elapses : Tick(ms)
    \/ ResizeSettled
SpecResize == InitResize /\ [][NextResize]_vars

\* ------------------------------------------------------------------------
\* Export Pipeline: downloadCertificate
\* ------------------------------------------------------------------------
Formats == {"jpg", "pdf"}

\* mutation of ReplaceWhitespace: every whitespace character is replaced
RECURSIVE ReplaceEachWhitespace(_)
ReplaceEachWhitespace(text) ==
    IF text = <<>> THEN <<>>
    ELSE IF IsSpace(Head(text))
         THEN <<"_">> \o ReplaceEachWhitespace(Tail(text))
         ELSE <<Head(text)>> \o ReplaceEachWhitespace(Tail(text))

\* text.replace(/\s+/g, '_')
RECURSIVE ReplaceWhitespace(_)
ReplaceWhitespace(text) ==
    IF text = <<>> THEN <<>>
    ELSE IF IsSpace(Head(text))
         THEN <<"_">> \o ReplaceWhitespace(TrimStart(Tail(text)))
         ELSE <<Head(text)>> \o ReplaceWhitespace(Tail(text))

\* textContent || fallback
TextOr(text, fallback) == IF text = <<>> THEN fallback ELSE text

\* the base file name, from the text of the two elements
filenameBase(f) ==
    LET recipientName == TextOr(f.recipientName, <<"Certificate">>)
        certificateId == TextOr(f.certificateId, <<"PTSC">>)
    IN  ReplaceWhitespace(recipientName) \o <<"_">> \o certificateId
            \o <<"_PTSC_Certificate">>

\* downloadCertificate(format) up to its await: the clone is attached, the
\* navigation hidden, the cursor saved and set to 'wait', html2canvas called
DownloadCertificate(format) ==
    /\ Quiescent
    /\ Len(exports) < MaxExports
    /\ exports' = Append(exports,
            [format |-> format, filenameBase |-> filenameBase(fields),
             recipientName |-> TextOr(fields.recipientName, <<"Certificate">>),
             certificateId |-> TextOr(fields.certificateId, <<"PTSC">>),
             originalCursor |-> cursor, stage |-> "raster"])
    /\ clones' = clones \cup {Len(exports) + 1}
    /\ navigation' = "hidden"
    /\ cursor' = "wait"
    /\ UNCHANGED <<search, formVars, runVars, domVars, protectionVars,
                   scaleVars, alerts, saved>>

\* the finally block: remove the clone, show the navigation, enable the
\* deterrent handlers
ExportCleanup(n) ==
    /\ clones' = clones \ {n}
    /\ navigation' = "visible"
    /\ EnableClientProtection

\* html2canvas resolved and the image was encoded and handed over: the file
\* is saved, the cursor restored
ExportSucceeds(n) ==
    /\ Quiescent
    /\ n \in 1..Len(exports)
    /\ exports[n].stage = "raster"
    /\ exports' = [exports EXCEPT ![n].stage = "done"]
    /\ saved' = Append(saved, exports[n].filenameBase \o <<".", exports[n].format>>)
    /\ cursor' = exports[n].originalCursor
    /\ ExportCleanup(n)
    /\ UNCHANGED <<search, formVars, runVars, domVars, scaleVars, alerts>>

\* mutation of ExportFails: the catch block only logs
ExportFailsSilently(n) ==
    /\ Quiescent
    /\ n \in 1..Len(exports)
    /\ exports[n].stage = "raster"
    /\ exports' = [exports EXCEPT ![n].stage = "failed"]
    /\ ExportCleanup(n)
    /\ UNCHANGED <<search, formVars, runVars, domVars, scaleVars, cursor,
                   saved, alerts>>

\* html2canvas rejected, or encoding the canvas or embedding it in the PDF
\* threw: the catch block logs and alerts
ExportFails(n) ==
    /\ Quiescent
    /\ n \in 1..Len(exports)
    /\ exports[n].stage = "raster"
    /\ exports' = [exports EXCEPT ![n].stage = "failed"]
    /\ alerts' = alerts + 1
    /\ ExportCleanup(n)
    /\ UNCHANGED <<search, formVars, runVars, domVars, scaleVars, cursor,
                   saved>>

Init == InitWith(PageQueries, {<<1920, 1080>>}, {NoMeta, MarkupMeta},
                 CertificatePage)

Next ==
    \/ VerifyCertificate
    \/ CheckParams
    \/ DelayElapsed
    \/ \E cause \in {"transport", "status", "ok"} : FetchSettles(cause)
    \/ BodyUnparseable
    \/ \E d \in PageBodies : BodyParsed(d)
    \/ \E failAt \in FailPoints : UpdateCertificateDisplay(failAt)
    \/ ShowCertificate({})
    \/ ShowNoMatch
    \/ WindowError
    \/ UnhandledRejection
    \/ \E format \in Formats : DownloadCertificate(format)
    \/ \E n \in 1..MaxExports : ExportSucceeds(n)
    \/ \E n \in 1..MaxExports : ExportFails(n)

Spec == Init /\ [][Next]_vars

\* ------------------------------------------------------------------------
\* The deterrent handlers: a verification run, with the calls showCertificate
\* guards failing or not, and calls of the two functions from outside
\* ------------------------------------------------------------------------
CallEnableClientProtection ==
    /\ Quiescent
    /\ EnableClientProtection
    /\ UNCHANGED <<search, formVars, runVars, domVars, scaleVars, exportVars>>

CallDisableClientProtection ==
    /\ Quiescent
    /\ DisableClientProtection
    /\ UNCHANGED <<search, formVars, runVars, domVars, scaleVars, exportVars>>

InitProtection ==
    InitWith(PageQueries, {<<1920, 1080>>, <<320, 640>>}, {NoMeta},
             CertificatePage)
NextProtection ==
    \/ VerifyCertificate
    \/ CheckParams
    \/ DelayElapsed
    \/ \E cause \in {"transport", "status", "ok"} : FetchSettles(cause)
    \/ BodyUnparseable
    \/ \E d \in PageBodies : BodyParsed(d)
    \/ \E failAt \in FailPoints : UpdateCertificateDisplay(failAt)
    \/ \E failing \in SUBSET ShowFailures : ShowCertificate(failing)
    \/ ShowNoMatch
    \/ CallEnableClientProtection
    \/ CallDisableClientProtection
SpecProtection == InitProtection /\ [][NextProtection]_vars

\* ------------------------------------------------------------------------
\* Repeated verification: verifyCertificate is called again on the same
\* document, each call once the call before it has ended
\* ------------------------------------------------------------------------
\* verifyCertificate is called again: its locals are new, showLoading()
VerifyCertificateAgain ==
    /\ pc = "done"
    /\ fetchCount < MaxRuns
    /\ params' = EmptyParams
    /\ argId' = Undefined
    /\ argKey' = Undefined
    /\ outcome' = "pending"
    /\ thrown' = NoError
    /\ data' = BodyWithoutCertificates
    /\ certificate' = Null
    /\ renderFailed' = FALSE
    /\ caught' = {}
    /\ display' = showLoading(display)
    /\ pc' = "loading"
    /\ UNCHANGED <<search, formVars, fetchCount, fields, title, meta,
                   protectionVars, scaleVars, exportVars>>

\* the steps of a started run: the run's own statements, the loading-delay
\* timer firing, the fetch and response.json() settling
RunStep ==
    \/ CheckParams
    \/ DelayElapsed
    \/ \E cause \in {"transport", "status", "ok"} : FetchSettles(cause)
    \/ BodyUnparseable
    \/ \E d \in RunBodies : BodyParsed(d)
    \/ \E failAt \in FailPoints : UpdateCertificateDisplay(failAt)
    \/ ShowCertificate({})
    \/ ShowNoMatch

NextRuns ==
    \/ VerifyCertificate
    \/ VerifyCertificateAgain
    \/ RunStep

\* a started run is not left waiting for ever: its statements run, the timer
\* fires and the promises settle
FairRuns == WF_vars(RunStep)
SpecRuns == Init /\ [][NextRuns]_vars /\ FairRuns

\* ------------------------------------------------------------------------
\* Properties of the Parameter Reader
\* ------------------------------------------------------------------------
\* C10: parseURLParams maps every parameter name to the value of its first
\* occurrence in the query (undefined if it does not occur), also when that
\* first value is the empty string.
C10_FirstOccurrenceWins ==
    pc = "parsed" =>
        \A n \in ParamNames : params[n] = FirstOccurrence(search, n)

\* ------------------------------------------------------------------------
\* Properties of the Matcher
\* ------------------------------------------------------------------------
\* a value with optional whitespace before and after it
Padded(s) == {s, <<" ">> \o s, s \o <<" ">>, <<" ">> \o s \o <<" ">>}

\* v is the record's field, as stored or surrounded by whitespace
IsQueryFor(v, field) == v = field \/ v \in Padded(OrEmpty(field))

\* the records of the fetched collection that carry the trimmed input pair
Matching ==
    {i \in 1..Len(data.certificates) :
        /\ Trim(OrEmpty(data.certificates[i].id)) = Trim(OrEmpty(argId))
        /\ Trim(OrEmpty(data.certificates[i].key)) = Trim(OrEmpty(argKey))}

Fetched == pc = "validated" /\ outcome = "body" /\ data.hasCertificates

\* C1: when the collection was fetched and validateCertificate was called
\* with a record's identifier and key, each possibly surrounded by
\* whitespace, the result is not null and is a record with the same trimmed
\* identifier and key.
C1_PresentRecordFound ==
    Fetched =>
        \A i \in 1..Len(data.certificates) :
            LET r == data.certificates[i] IN
            (IsQueryFor(argId, r.id) /\ IsQueryFor(argKey, r.key)) =>
                /\ certificate # Null
                /\ Trim(OrEmpty(data.certificates[certificate].id))
                        = Trim(OrEmpty(r.id))
                /\ Trim(OrEmpty(data.certificates[certificate].key))
                        = Trim(OrEmpty(r.key))

\* a record stored with trailing whitespace is found by a query with
\* leading whitespace, and the same for the key
C1_Witness ==
    /\ Fetched
    /\ certificate # Null
    /\ argId = <<" ", "a">>
    /\ data.certificates[certificate].id = <<"a", " ">>
    /\ argKey = <<"k", " ">>
    /\ data.certificates[certificate].key = <<" ", "k">>

\* C2: when no record carries both the trimmed input identifier and the
\* trimmed input key, validateCertificate returns null.
C2_AbsentPairIsNull ==
    pc = "validated" => (Matching = {} => certificate = Null)

\* null although the collection has a record that differs from the input
\* only by the case of the key, and one of which the input identifier is a
\* prefix
C2_Witness ==
    /\ Fetched
    /\ certificate = Null
    /\ argId = <<"a">>
    /\ argKey = <<"K">>
    /\ Len(data.certificates) = 2
    /\ data.certificates[1].id = <<"a">>
    /\ data.certificates[1].key = <<"k">>
    /\ data.certificates[2].id = <<"a", "b">>
    /\ data.certificates[2].key = <<"K">>

\* C3: when two or more records carry the trimmed input pair, the result
\* is the one with the lowest index, whatever the call.
C3_FirstOfDuplicates ==
    (Fetched /\ Cardinality(Matching) >= 2) =>
        /\ certificate \in Matching
        /\ \A i \in Matching : certificate <= i

\* two records with the same trimmed pair that differ as stored
C3_Witness ==
    /\ Fetched
    /\ Cardinality(Matching) >= 2
    /\ certificate = 1
    /\ data.certificates[1] # data.certificates[2]

\* ------------------------------------------------------------------------
\* Properties of the verification run
\* ------------------------------------------------------------------------
\* region r is the one visible region
Shown(r) ==
    /\ display[r] = "block"
    /\ \A other \in Regions \ {r} : display[other] = "none"

\* the query has no occurrence of the name, or only empty ones
AbsentOrEmpty(name) ==
    \A i \in 1..Len(search) :
        search[i].name = name => search[i].value = <<>>

\* C4: in a run whose `id` or `key` parameter is absent or empty, the
\* parameter check ends the run in the ERROR state and no fetch is issued,
\* before or after it; no run issues a fetch before its parameter check.
C4_MissingParamsNoFetch ==
    /\ pc \in {"idle", "loading"} => fetchCount = 0
    /\ (pc \notin {"idle", "loading"}
            /\ (AbsentOrEmpty("id") \/ AbsentOrEmpty("key"))) =>
        /\ pc = "done"
        /\ Shown("errorState")
        /\ fetchCount = 0

\* a run with an identifier and an empty key has ended in ERROR unfetched
C4_Witness ==
    /\ pc = "done"
    /\ search = <<Entry("id", <<"a">>), Entry("key", <<>>)>>
    /\ Shown("errorState")
    /\ fetchCount = 0

\* C5: a run with both parameters and a fetched collection ends in the
\* CERTIFICATE state with the recipient field equal to the matched record's
\* name if a record matches, and in the ERROR state if none does (stated
\* here for runs whose field population raised no exception and whose
\* matched record has a name).
C5_EndsWithNameOrError ==
    (pc = "done" /\ ~MissingParams(params) /\ outcome = "body"
        /\ data.hasCertificates /\ ~renderFailed) =>
        IF Matching # {}
        THEN /\ certificate # Null
             /\ Truthy(data.certificates[certificate].name) =>
                    /\ Shown("certificateState")
                    /\ fields.recipientName = data.certificates[certificate].name
        ELSE Shown("errorState")

\* C6: once verifyCertificate has started, exactly one of the three regions
\* is visible in every state (every state then follows a show* call), so
\* never two.
C6_OneRegionVisible ==
    pc # "idle" => \E r \in Regions : Shown(r)

\* the certificate is shown and an export has run to its end
C6_Witness ==
    /\ pc = "done"
    /\ Shown("certificateState")
    /\ Len(exports) >= 1
    /\ exports[1].stage = "done"

\* C7: once the ERROR region or the CERTIFICATE region is the visible one,
\* no step changes that.
C7_FinalStatesStay ==
    [][/\ Shown("errorState") => Shown("errorState")'
       /\ Shown("certificateState") => Shown("certificateState")']_vars

\* C8: a run in which updateCertificateDisplay caught an exception ends
\* with the error region visible and the certificate region hidden.
C8_RenderFailureEndsInError ==
    (pc = "done" /\ renderFailed) => Shown("errorState")

\* the record source failed
SourceFailed ==
    \/ outcome \in {"transport", "status", "syntax"}
    \/ outcome = "body" /\ ~data.hasCertificates

\* C9: after a transport error, a non-success status or an unparseable
\* body, fetchCertificates has thrown the one generic error; after any of
\* these and after a body without a certificates array, validateCertificate
\* has returned null, and the run ends in the ERROR state.
C9_SourceFailureIsNoMatch ==
    /\ outcome \in {"transport", "status", "syntax"} => thrown = GenericLoadError
    /\ SourceFailed => certificate = Null
    /\ (SourceFailed /\ pc = "done") => Shown("errorState")

\* a run whose response had a success status and no JSON in it has ended
C9_Witness ==
    /\ pc = "done"
    /\ outcome = "syntax"
    /\ thrown = GenericLoadError
    /\ certificate = Null
    /\ Shown("errorState")

\* ------------------------------------------------------------------------
\* Properties of the Form Gate
\* ------------------------------------------------------------------------
\* PTSC, four digits, a dash, four digits
WellFormedId(s) ==
    /\ Len(s) = 13
    /\ SubSeq(s, 1, 4) = <<"P", "T", "S", "C">>
    /\ s[9] = "-"
    /\ \A i \in (5..8) \cup (10..13) : s[i] \in Digits

\* exactly ten characters, each a letter or a digit
WellFormedKey(s) ==
    /\ Len(s) = 10
    /\ {s[i] : i \in 1..10} \subseteq Alphanumerics

\* the form's values pass the gate
FormPasses(f) ==
    /\ f.certificateId # Undefined
    /\ f.certificateKey # Undefined
    /\ WellFormedId(Trim(f.certificateId))
    /\ WellFormedKey(Trim(f.certificateKey))

\* C11: a submission (a step that navigates or alerts) navigates exactly if
\* the trimmed identifier is PTSC + 4 digits + '-' + 4 digits and the
\* trimmed key is 10 alphanumeric characters; the target then is
\* certificate.html?id=<id>&key=<key> with the two trimmed values; otherwise
\* the location stays and one alert is shown.  PTSC25-123 and ABCDEFGHI are
\* rejected, PTSC2025-0123 with ABCDEFGHIJ is accepted.
C11_FormGate ==
    [][(href' # href \/ alerts' # alerts) =>
        /\ IF FormPasses(form)
           THEN /\ href' = <<"certificate.html?id=">> \o Trim(form.certificateId)
                            \o <<"&key=">> \o Trim(form.certificateKey)
                /\ alerts' = alerts
           ELSE /\ href' = href
                /\ alerts' = alerts + 1
                /\ message' # NoMessage
        /\ (form.certificateId = IdShortYear \/ form.certificateKey = KeyShort)
                => href' = href
        /\ (form.certificateId = IdGood /\ form.certificateKey = KeyGood)
                => href' # href]_vars

\* values typed with whitespace around them were accepted, after an earlier
\* submission was rejected
C11_Witness ==
    /\ form.certificateId = <<" ">> \o IdGood \o <<" ", "\n">>
    /\ form.certificateKey = <<"\t">> \o KeyGood \o <<" ">>
    /\ href = <<"certificate.html?id=">> \o IdGood \o <<"&key=">> \o KeyGood
    /\ alerts = 1

\* ------------------------------------------------------------------------
\* Properties of the Export Pipeline
\* ------------------------------------------------------------------------
\* this step is the call of downloadCertificate that starts a run
ExportCalled == Len(exports') = Len(exports) + 1

\* this step takes run n from its rasterization await to its end
ExportEnded(n) == exports[n].stage = "raster" /\ exports'[n].stage # "raster"

\* this step is the failure of run n
ExportFailed(n) == exports[n].stage = "raster" /\ exports'[n].stage = "failed"

\* the runs suspended at their rasterization await
InFlight == {n \in 1..Len(exports) : exports[n].stage = "raster"}

\* C12: the step that ends a downloadCertificate run, by success or by
\* failure, leaves the run's clone detached and the navigation visible, and
\* leaves the deterrent handlers as they were: installed if they were
\* installed, not installed if they were not.
C12_ExportRestores ==
    [][\A n \in 1..Len(exports) : ExportEnded(n) =>
            /\ n \notin clones'
            /\ navigation' = "visible"
            /\ protection' = protection
            /\ listeners' = listeners]_vars

\* C13: the failure of a downloadCertificate run shows one alert, hands no
\* file to the browser and leaves the three regions as they are; the call
\* that started the run showed no alert, saved nothing and left the regions
\* as they were.
C13_FailedExportAlertsOnce ==
    [][/\ \A n \in 1..Len(exports) : ExportFailed(n) =>
            /\ alerts' = alerts + 1
            /\ saved' = saved
            /\ display' = display
       /\ ExportCalled =>
            /\ alerts' = alerts
            /\ saved' = saved
            /\ display' = display]_vars

\* an export of the shown certificate failed: one alert, no file
C13_Witness ==
    /\ Shown("certificateState")
    /\ Len(exports) >= 1
    /\ exports[1].stage = "failed"
    /\ InFlight = {}
    /\ alerts = 1
    /\ saved = <<>>

\* C14: at most one downloadCertificate run is suspended at a time.
C14_OneExportInFlight == Cardinality(InFlight) <= 1

\* text with every maximal run of whitespace replaced by one underscore;
\* inRun: the character before the text was whitespace
RECURSIVE Underscored(_, _)
Underscored(text, inRun) ==
    IF text = <<>> THEN <<>>
    ELSE LET space == IsSpace(Head(text))
             rest == Underscored(Tail(text), space)
         IN  IF ~space THEN <<Head(text)>> \o rest
             ELSE IF inRun THEN rest
             ELSE <<"_">> \o rest

\* C19: the base file name a downloadCertificate call uses is the displayed
\* recipient name with each whitespace run replaced by '_', then '_', the
\* displayed identifier, then '_PTSC_Certificate'; so it equals the base
\* file name of every earlier run, of either format, that was called with
\* the same name and identifier displayed.
C19_FilenameFromNameAndId ==
    [][ExportCalled =>
        LET run == exports'[Len(exports')] IN
        /\ run.filenameBase =
                Underscored(fields.recipientName, FALSE) \o <<"_">>
                    \o fields.certificateId \o <<"_PTSC_Certificate">>
        /\ \A n \in 1..Len(exports) :
                (/\ exports[n].recipientName = fields.recipientName
                 /\ exports[n].certificateId = fields.certificateId)
                    => exports[n].filenameBase = run.filenameBase]_vars

\* the record with two whitespace characters in its name was exported as
\* an image and as a document under one base name
C19_Witness ==
    /\ Len(exports) = 2
    /\ exports[1].format # exports[2].format
    /\ exports[1].filenameBase = exports[2].filenameBase
    /\ exports[1].filenameBase =
            <<"S", "_", "D", "_", " ", "a", "_PTSC_Certificate">>

\* ------------------------------------------------------------------------
\* Properties of the fallback handlers
\* ------------------------------------------------------------------------
\* region r is the one visible region of the styles d
ShownIn(d, r) ==
    /\ d[r] = "block"
    /\ \A other \in Regions \ {r} : d[other] = "none"

\* C15: in every state of a started run in which an event can be
\* dispatched, if neither the ERROR nor the CERTIFICATE region is showing
\* then the 'error' listener and the 'unhandledrejection' listener each
\* leave the ERROR region showing, and if the CERTIFICATE region is showing
\* each leaves the display as it is.
C15_FallbackForcesError ==
    (Quiescent /\ pc # "idle") =>
        /\ (~Shown("errorState") /\ ~Shown("certificateState")) =>
                /\ ShownIn(windowErrorListener(display), "errorState")
                /\ ShownIn(unhandledRejectionListener(display), "errorState")
        /\ Shown("certificateState") =>
                /\ windowErrorListener(display) = display
                /\ unhandledRejectionListener(display) = display

\* ------------------------------------------------------------------------
\* Properties of the responsive scale
\* ------------------------------------------------------------------------
\* C16: every resize event leaves exactly one timer pending, the one it
\* set, due after the full wait; a call of applyResponsiveScale by the
\* debounced handler is made by the timer of the last event, when the wait
\* has passed since that event, and leaves no timer pending, so an event
\* followed by another within the wait causes no call and a burst causes
\* one call, after its last event; at most one timer is pending at any
\* time.
C16_DebounceFiresOnceAfterBurst ==
    [][/\ Cardinality(timers') <= 1
       /\ timeout' # timeout =>
            /\ timers' = {[id |-> timeout', due |-> 250]}
            /\ rescaled' = rescaled
       /\ rescaled' # rescaled =>
            /\ rescaled' = rescaled + 1
            /\ timers = {[id |-> timeout, due |-> 0]}
            /\ timers' = {}
            /\ layout' = applyResponsiveScale(viewport)]_vars

\* three events were one burst: the one call made so far came after the
\* third, for the window the third reported, and no timer is pending
C16_Witness ==
    /\ timeout = 3
    /\ rescaled = 1
    /\ timers = {}
    /\ layout = applyResponsiveScale(viewport)
    /\ layout # Unstyled

\* x <= y and x = y for fractions <<numerator, denominator>>
NoMoreThan(x, y) == x[1] * y[2] <= y[1] * x[2]
SameValue(x, y) == x[1] * y[2] = y[1] * x[2]

\* max(min((width - hPad)/1123, (height - vPad)/794, 1), 0.25)
ClampedFit(width, height) ==
    LET hPad == IF width < 768 THEN 20 ELSE 40
        vPad == IF width < 768 THEN 100 ELSE 200
        candidates == {<<width - hPad, 1123>>, <<height - vPad, 794>>, <<1, 1>>}
        least == CHOOSE q \in candidates :
                    \A r \in candidates : NoMoreThan(q, r)
    IN  IF NoMoreThan(<<1, 4>>, least) THEN least ELSE <<1, 4>>

\* C18: the scale a call of applyResponsiveScale applies for a window of
\* width w and height h equals max(min((w - hPad)/1123, (h - vPad)/794, 1),
\* 0.25), with hPad/vPad = 20/100 below a width of 768 and 40/200 from it
\* on, and so lies between 0.25 and 1, also for windows smaller than the
\* padding.
C18_ScaleIsClampedFit ==
    [][rescaled' # rescaled =>
        /\ SameValue(layout'.transform, ClampedFit(viewport[1], viewport[2]))
        /\ NoMoreThan(<<1, 4>>, layout'.transform)
        /\ NoMoreThan(layout'.transform, <<1, 1>>)]_vars

\* the scale was applied for a window narrower and lower than the padding
C18_Witness ==
    /\ rescaled >= 1
    /\ timers = {}
    /\ viewport = <<10, 50>>
    /\ layout.transform = <<1, 4>>

\* ------------------------------------------------------------------------
\* Properties of the deterrent handlers
\* ------------------------------------------------------------------------
\* C17: whatever calls of enableClientProtection and disableClientProtection
\* were made, at most one context-menu listener and at most one keydown
\* listener are registered, the flag is set exactly when they are
\* registered, and a second enable (or disable) in a row changes nothing.
C17_ProtectionIdempotent ==
    LET h == Handlers(protection, listeners) IN
    /\ listeners.contextmenu <= 1
    /\ listeners.keydown <= 1
    /\ protection <=> (listeners.contextmenu = 1 /\ listeners.keydown = 1)
    /\ ~protection <=> (listeners.contextmenu = 0 /\ listeners.keydown = 0)
    /\ enableClientProtection(enableClientProtection(h))
            = enableClientProtection(h)
    /\ disableClientProtection(disableClientProtection(h))
            = disableClientProtection(h)
    /\ enableClientProtection(h).listeners = [contextmenu |-> 1, keydown |-> 1]
    /\ disableClientProtection(h).listeners = [contextmenu |-> 0, keydown |-> 0]

\* the handlers showCertificate installed were removed by a call of
\* disableClientProtection
C17_Witness ==
    /\ pc = "done"
    /\ Shown("certificateState")
    /\ caught = {}
    /\ ~protection
    /\ listeners = [contextmenu |-> 0, keydown |-> 0]

\* C20: every call of showCertificate leaves the certificate region the
\* visible one, also when installing the handlers or computing the scale
\* raised an exception; unless installing raised one, the handlers are
\* installed afterwards, once, whether they were installed before or not;
\* unless computing raised one, the scale for the current window is
\* applied.
C20_ShowCertificateInstalls ==
    [][(pc = "updated" /\ pc' = "done") =>
        /\ Shown("certificateState")'
        /\ "enableClientProtection" \notin caught' =>
                /\ protection'
                /\ listeners' = [contextmenu |-> 1, keydown |-> 1]
        /\ "applyResponsiveScale" \notin caught' =>
                layout' = applyResponsiveScale(viewport)]_vars

\* the certificate is shown although both calls failed: no handlers, no
\* scale
C20_Witness ==
    /\ pc = "done"
    /\ Shown("certificateState")
    /\ caught = ShowFailures
    /\ ~protection
    /\ layout = Unstyled

\* ------------------------------------------------------------------------
\* Properties of repeated verification
\* ------------------------------------------------------------------------
\* `part` occurs in `text`
Contains(text, part) ==
    \E i \in 0..(Len(text) - Len(part)) :
        SubSeq(text, i + 1, i + Len(part)) = part

\* the run found a record and updateCertificateDisplay ran to its end
Rendering == pc \in {"updated", "done"} /\ certificate # Null /\ ~renderFailed

\* C21: however many times the page was verified, the document never has
\* more than one title entry or more than one description entry; once a run
\* has rendered its record (updateCertificateDisplay ran to its end) there
\* is exactly one of each, the title entry holding that record's name and
\* type and the description entry its name and event.
C21_OneMetaEntryEach ==
    /\ Len(meta.title) <= 1
    /\ Len(meta.description) <= 1
    /\ Rendering =>
        LET cert == data.certificates[certificate] IN
        /\ Len(meta.title) = 1
        /\ Len(meta.description) = 1
        /\ Contains(meta.title[1], cert.name)
        /\ Contains(meta.title[1], cert.type)
        /\ Contains(meta.description[1], cert.name)
        /\ Contains(meta.description[1], cert.event)

\* the second run rendered the nameless record after the first had rendered
\* RecJane (the document's title still names her): the one title entry now
\* holds the second record's type and no longer the first record's name
C21_Witness ==
    /\ pc = "done"
    /\ fetchCount = 2
    /\ Rendering
    /\ data.certificates[certificate] = RecNameless
    /\ title = <<"Certificate - ">> \o RecJane.name \o <<" - PTSC KNIT">>
    /\ Len(meta.title) = 1
    /\ Contains(meta.title[1], RecNameless.type)
    /\ ~Contains(meta.title[1], RecJane.name)
    /\ Contains(meta.description[1], RecNameless.event)

\* C22: a run issues its fetch when, and only when, it passes from the
\* loading delay to validateCertificate, so every run that passed the
\* parameter check issues exactly one; a new run starts holding no result,
\* and the result of a run is computed from the body its own fetch was
\* answered with, or is null if that fetch failed; from then on until the
\* run ends the fetched collection and the result stay as they are.
C22_OneFetchPerAttempt ==
    [][/\ (pc = "delay" /\ pc' # "delay") =>
            (pc' = "fetch" /\ fetchCount' = fetchCount + 1)
       /\ pc # "delay" => fetchCount' = fetchCount
       /\ pc' = "loading" =>
            (certificate' = Null /\ data' = BodyWithoutCertificates)
       /\ (pc # "validated" /\ pc' = "validated") =>
            /\ pc \in {"fetch", "json"}
            /\ IF outcome' = "body"
               THEN /\ data' \in RunBodies
                    /\ certificate' = validateBody(data', argId, argKey)
               ELSE certificate' = Null
       /\ pc \in {"validated", "updated"} =>
            (data' = data /\ certificate' = certificate)]_vars

\* the first run displayed RecJane (her name is still in the element); the
\* second run's fetch was rejected and the run ended in ERROR with no record
C22_Witness ==
    /\ pc = "done"
    /\ fetchCount = 2
    /\ outcome = "transport"
    /\ certificate = Null
    /\ fields.recipientName = RecJane.name
    /\ Shown("errorState")

\* C23: every run of verifyCertificate starts with the LOADING region the
\* visible one and, the loading-delay timer firing and the fetch settling,
\* ends with the ERROR region or the CERTIFICATE region the visible one: it
\* does not stay in LOADING for ever and does not end with no region
\* visible.
C23_RunEndsInErrorOrCertificate ==
    /\ [](pc = "loading" => Shown("loadingState"))
    /\ [](pc = "done" => (Shown("errorState") \/ Shown("certificateState")))
    /\ (pc = "loading") ~> (pc = "done")

\* the second run on the document ended in ERROR because the fetch was
\* answered with a failure status
C23_Witness ==
    /\ pc = "done"
    /\ fetchCount = 2
    /\ outcome = "status"
    /\ Shown("errorState")

\* ------------------------------------------------------------------------
\* Properties of the displayed record
\* ------------------------------------------------------------------------
\* the elements that show a field of the record as text
TextFields == {"certificateType", "recipientName", "eventName",
               "certificateId", "issuerName"}

\* the field of the record an element shows, a missing one being no text
FieldText(el, cert) == OrEmpty(SourceOf(el, cert))

\* C24: when a run has ended with the CERTIFICATE region the visible one,
\* the type, recipient, event, identifier and issuer elements each hold the
\* matched record's field, an empty or missing field showing as no text
\* (stated here for runs whose field population raised no exception and for
\* the fields whose text sanitizeText leaves as it is).
C24_DisplayedEqualsRecord ==
    (pc = "done" /\ Shown("certificateState") /\ certificate # Null
        /\ ~renderFailed) =>
        LET cert == data.certificates[certificate] IN
        \A el \in TextFields :
            sanitizeText(FieldText(el, cert)) = FieldText(el, cert) =>
                fields[el] = FieldText(el, cert)

\* ------------------------------------------------------------------------
\* Properties of the Export Pipeline's restoration under interleaving
\* ------------------------------------------------------------------------
\* C25: the step that ends a downloadCertificate run, by success or by
\* failure, leaves the body's cursor with the value it had when the run
\* was called.
C25_CursorRestored ==
    [][\A n \in 1..Len(exports) : ExportEnded(n) =>
            cursor' = exports[n].originalCursor]_vars

\* C26: while a downloadCertificate run is suspended at its rasterization
\* the navigation is hidden, and the clone of every suspended run is
\* attached to the body, however many runs were called and whichever of
\* them have ended.
C26_PendingExportKeepsSetup ==
    InFlight # {} =>
        /\ navigation = "hidden"
        /\ InFlight \subseteq clones

====
